---- MODULE Spec2Model ----
(***************************************************************************)
(* The log query of enfugue's system controller                            *)
(* (src/python/enfugue/api/controller/system.py): read_logs reads the      *)
(* engine log file, parse_logs assembles its physical lines into entries,  *)
(* include_log filters them by the request's criteria and the survivors    *)
(* are sorted by timestamp and reversed.                                   *)
(*                                                                         *)
(* Text is a sequence of one-character strings, so that matching,          *)
(* stripping and lower-casing are computed character by character.         *)
(* Python values whose runtime type matters are records [type, val].       *)
(***************************************************************************)
EXTENDS Integers, Sequences, FiniteSets, TLC

(***************************************************************************)
(* Bounds                                                                  *)
(***************************************************************************)
\* the log file holds at most MaxLines physical lines
MaxLines == 3

(***************************************************************************)
(* Text constants: the physical lines the log file is made of (without     *)
(* their terminators) and the strings requests and entries are compared    *)
(* with.                                                                   *)
(***************************************************************************)
\* "2023-10-01 12:00:00,123456 [foo.bar] INFO (mod.py:10) hello"
LineA ==
  <<"2","0","2","3","-","1","0","-","0","1"," ","1","2",":","0","0",":","0","0",",","1","2","3","4","5","6"," ","[","f","o","o",".","b","a","r","]"," ","I","N","F","O"," ","(","m","o","d",".","p","y",":","1","0",")"," ","h","e","l","l","o">>

\* "Traceback (most recent call last):"
LineB ==
  <<"T","r","a","c","e","b","a","c","k"," ","(","m","o","s","t"," ","r","e","c","e","n","t"," ","c","a","l","l"," ","l","a","s","t",")",":">>

\* "2023-10-01 23:59:59,999999 [enfugue] ERROR (api.py:7) an error occurred"
LineP ==
  <<"2","0","2","3","-","1","0","-","0","1"," ","2","3",":","5","9",":","5","9",",","9","9","9","9","9","9"," ","[","e","n","f","u","g","u","e","]"," ","E","R","R","O","R"," ","(","a","p","i",".","p","y",":","7",")"," ","a","n"," ","e","r","r","o","r"," ","o","c","c","u","r","r","e","d">>

\* "2023-10-02 00:00:00,000000 [enfugue] INFO (mod.py:12) Error again"
LineQ ==
  <<"2","0","2","3","-","1","0","-","0","2"," ","0","0",":","0","0",":","0","0",",","0","0","0","0","0","0"," ","[","e","n","f","u","g","u","e","]"," ","I","N","F","O"," ","(","m","o","d",".","p","y",":","1","2",")"," ","E","r","r","o","r"," ","a","g","a","i","n">>

\* "2023-13-01 12:00:00,123456 [foo.bar] INFO (mod.py:10) hello"
LineM ==
  <<"2","0","2","3","-","1","3","-","0","1"," ","1","2",":","0","0",":","0","0",",","1","2","3","4","5","6"," ","[","f","o","o",".","b","a","r","]"," ","I","N","F","O"," ","(","m","o","d",".","p","y",":","1","0",")"," ","h","e","l","l","o">>

\* "2023-10-01 12:00:00,1234567 [foo.bar] INFO (mod.py:10) hello"
LineF ==
  <<"2","0","2","3","-","1","0","-","0","1"," ","1","2",":","0","0",":","0","0",",","1","2","3","4","5","6","7"," ","[","f","o","o",".","b","a","r","]"," ","I","N","F","O"," ","(","m","o","d",".","p","y",":","1","0",")"," ","h","e","l","l","o">>

\* "2023-10-01 12:00:00,123456 [foo.bar] ERROR (api.py:9) Error: retry"
LineT ==
  <<"2","0","2","3","-","1","0","-","0","1"," ","1","2",":","0","0",":","0","0",",","1","2","3","4","5","6"," ","[","f","o","o",".","b","a","r","]"," ","E","R","R","O","R"," ","(","a","p","i",".","p","y",":","9",")"," ","E","r","r","o","r",":"," ","r","e","t","r","y">>

\* "foo.bar"
StrFooBar ==
  <<"f","o","o",".","b","a","r">>

\* "INFO"
StrINFO ==
  <<"I","N","F","O">>

\* "ERROR"
StrERROR ==
  <<"E","R","R","O","R">>

\* "mod.py"
StrModPy ==
  <<"m","o","d",".","p","y">>

\* "hello"
StrHello ==
  <<"h","e","l","l","o">>

\* "hello\nTraceback (most recent call last):"
StrHelloTraceback ==
  <<"h","e","l","l","o","\n","T","r","a","c","e","b","a","c","k"," ","(","m","o","s","t"," ","r","e","c","e","n","t"," ","c","a","l","l"," ","l","a","s","t",")",":">>

\* "yesterday"
StrYesterday ==
  <<"y","e","s","t","e","r","d","a","y">>

(***************************************************************************)
(* Characters                                                              *)
(***************************************************************************)
NL == "\n"

UpperLetters ==
  <<"A","B","C","D","E","F","G","H","I","J","K","L","M",
    "N","O","P","Q","R","S","T","U","V","W","X","Y","Z">>

LowerLetters ==
  <<"a","b","c","d","e","f","g","h","i","j","k","l","m",
    "n","o","p","q","r","s","t","u","v","w","x","y","z">>

DigitChars == <<"0","1","2","3","4","5","6","7","8","9">>

Range(f) == {f[i] : i \in DOMAIN f}

\* \d
Digits == Range(DigitChars)

\* [A-Z]
UpperSet == Range(UpperLetters)

\* [a-zA-Z0-9_\.]
LoggerChars == UpperSet \cup Range(LowerLetters) \cup Digits \cup {"_", "."}

\* int() of one decimal digit
DigitVal(c) == (CHOOSE i \in DOMAIN DigitChars : DigitChars[i] = c) - 1

\* int() of a run of decimal digits
RECURSIVE ToInt(_)
ToInt(s) ==
  IF Len(s) = 0 THEN 0
  ELSE 10 * ToInt(SubSeq(s, 1, Len(s) - 1)) + DigitVal(s[Len(s)])

\* str.lower() of one character
LowerChar(c) ==
  IF c \in UpperSet
    THEN LowerLetters[CHOOSE i \in DOMAIN UpperLetters : UpperLetters[i] = c]
    ELSE c

\* str.lower()
Lower(s) == [i \in DOMAIN s |-> LowerChar(s[i])]

\* needle in haystack, for strings
Contains(haystack, needle) ==
  \E k \in 0..(Len(haystack) - Len(needle)) :
    \A i \in 1..Len(needle) : haystack[k + i] = needle[i]

(***************************************************************************)
(* LOG_REGEX.  The pattern is anchored and every repeated class is         *)
(* followed by a literal outside the class, so a match is determined left  *)
(* to right without backtracking.                                          *)
(***************************************************************************)
\* the character at position i, "" past the end of the string
At(s, i) == IF i \in 1..Len(s) THEN s[i] ELSE ""

\* the position after the longest run, from position i, of characters
\* satisfying the class
DigitRunEnd(s, i) ==
  CHOOSE j \in i..(Len(s) + 1) :
    /\ \A k \in i..(j - 1) : s[k] \in Digits
    /\ (j = Len(s) + 1 \/ s[j] \notin Digits)

LoggerRunEnd(s, i) ==
  CHOOSE j \in i..(Len(s) + 1) :
    /\ \A k \in i..(j - 1) : s[k] \in LoggerChars
    /\ (j = Len(s) + 1 \/ s[j] \notin LoggerChars)

UpperRunEnd(s, i) ==
  CHOOSE j \in i..(Len(s) + 1) :
    /\ \A k \in i..(j - 1) : s[k] \in UpperSet
    /\ (j = Len(s) + 1 \/ s[j] \notin UpperSet)

\* [^:]+ : any character but the colon, the newline included
NonColonRunEnd(s, i) ==
  CHOOSE j \in i..(Len(s) + 1) :
    /\ \A k \in i..(j - 1) : s[k] # ":"
    /\ (j = Len(s) + 1 \/ s[j] = ":")

\* .* : any character but the newline
NonNewlineRunEnd(s, i) ==
  CHOOSE j \in i..(Len(s) + 1) :
    /\ \A k \in i..(j - 1) : s[k] # NL
    /\ (j = Len(s) + 1 \/ s[j] = NL)

\* \d{4}-\d{2}-\d{2}\ \d{2}:\d{2}:\d{2}, at positions 1..20
TimestampPrefix(s) ==
  /\ Len(s) >= 20
  /\ \A i \in {1,2,3,4,6,7,9,10,12,13,15,16,18,19} : s[i] \in Digits
  /\ s[5] = "-" /\ s[8] = "-" /\ s[11] = " "
  /\ s[14] = ":" /\ s[17] = ":" /\ s[20] = ","

NoMatch == [matched |-> FALSE]

\* LOG_REGEX.match(line) and groupdict(): NoMatch, or the named groups
LOG_REGEX(s) ==
  IF ~TimestampPrefix(s) THEN NoMatch
  ELSE
  LET f2 == DigitRunEnd(s, 21) IN
  IF ~(f2 > 21 /\ At(s, f2) = " " /\ At(s, f2 + 1) = "[") THEN NoMatch
  ELSE
  LET g1 == f2 + 2
      g2 == LoggerRunEnd(s, g1) IN
  IF ~(g2 > g1 /\ At(s, g2) = "]" /\ At(s, g2 + 1) = " ") THEN NoMatch
  ELSE
  LET l1 == g2 + 2
      l2 == UpperRunEnd(s, l1) IN
  IF ~(l2 > l1 /\ At(s, l2) = " " /\ At(s, l2 + 1) = "(") THEN NoMatch
  ELSE
  LET p1 == l2 + 2
      p2 == NonColonRunEnd(s, p1) IN
  IF ~(p2 > p1 /\ At(s, p2) = ":") THEN NoMatch
  ELSE
  LET n1 == p2 + 1
      n2 == DigitRunEnd(s, n1) IN
  IF ~(n2 > n1 /\ At(s, n2) = ")" /\ At(s, n2 + 1) = " ") THEN NoMatch
  ELSE
  LET c1 == n2 + 2
      c2 == NonNewlineRunEnd(s, c1) IN
  \* $ matches at the end of the string or before a final newline
  IF ~(c2 = Len(s) + 1 \/ c2 = Len(s)) THEN NoMatch
  ELSE [matched   |-> TRUE,
        timestamp |-> SubSeq(s, 1, f2 - 1),
        logger    |-> SubSeq(s, g1, g2 - 1),
        level     |-> SubSeq(s, l1, l2 - 1),
        file      |-> SubSeq(s, p1, p2 - 1),
        line      |-> SubSeq(s, n1, n2 - 1),
        content   |-> SubSeq(s, c1, c2 - 1)]

(***************************************************************************)
(* datetime.datetime.strptime(text, "%Y-%m-%d %H:%M:%S,%f") on a text that *)
(* LOG_REGEX accepted as timestamp.  A datetime is the tuple               *)
(* <<year, month, day, hour, minute, second, microsecond>>.                *)
(***************************************************************************)
IsLeap(y) == (y % 4 = 0 /\ y % 100 # 0) \/ y % 400 = 0

DaysInMonth(y, m) ==
  IF m = 2 THEN (IF IsLeap(y) THEN 29 ELSE 28)
  ELSE IF m \in {4, 6, 9, 11} THEN 30 ELSE 31

RECURSIVE Pow10(_)
Pow10(n) == IF n = 0 THEN 1 ELSE 10 * Pow10(n - 1)

\* the number of digits %f accepts
MaxFractionDigits == 6

\* [ok |-> FALSE] stands for the ValueError strptime raises
strptime(t) ==
  LET y    == ToInt(SubSeq(t, 1, 4))
      mo   == ToInt(SubSeq(t, 6, 7))
      d    == ToInt(SubSeq(t, 9, 10))
      h    == ToInt(SubSeq(t, 12, 13))
      mi   == ToInt(SubSeq(t, 15, 16))
      sec  == ToInt(SubSeq(t, 18, 19))
      frac == SubSeq(t, 21, Len(t))
  IN IF /\ y >= 1
        /\ mo \in 1..12
        /\ d \in 1..DaysInMonth(y, mo)
        /\ h <= 23 /\ mi <= 59 /\ sec <= 59
        /\ Len(frac) <= MaxFractionDigits
     THEN [ok |-> TRUE,
           value |-> <<y, mo, d, h, mi, sec,
                       ToInt(frac) * Pow10(MaxFractionDigits - Len(frac))>>]
     ELSE [ok |-> FALSE]

\* a < b for two datetimes
RECURSIVE TupleLess(_, _)
TupleLess(a, b) ==
  IF Len(a) = 0 \/ Len(b) = 0 THEN FALSE
  ELSE IF Head(a) # Head(b) THEN Head(a) < Head(b)
  ELSE TupleLess(Tail(a), Tail(b))

(***************************************************************************)
(* Python values                                                           *)
(***************************************************************************)
None == [type |-> "NoneType", val |-> <<>>]
Str(s) == [type |-> "str", val |-> s]
DateTime(t) == [type |-> "datetime", val |-> t]
Date(d) == [type |-> "date", val |-> d]

\* a configuration key that is not set: configuration.get(key, None)
Unset == "<None>"

\* the `if not file_path` test: None and the empty string are false
Falsy(p) == p \in {Unset, ""}

(***************************************************************************)
(* Inputs                                                                  *)
(***************************************************************************)
\* the physical lines a log file is made of
Catalogue == {LineA, LineB, LineP, LineQ, LineM, LineF, LineT}

LogFiles == UNION {[1..n -> Catalogue] : n \in 0..MaxLines}

HandlerValues == {Unset, "file", "stream"}

PathValues == {Unset, "", "~/.cache/enfugue-engine.log"}

\* what Serializer.deserialize makes of the `since` parameter: an absent
\* parameter stays None, a date-time text becomes a datetime, a date text
\* a date, and any other text stays a string
SinceValues ==
  << None,
     DateTime(<<2023, 10, 2, 0, 0, 0, 0>>),
     DateTime(<<2023, 10, 1, 12, 0, 0, 123456>>),
     Date(<<2023, 10, 2>>),
     Str(StrYesterday) >>

\* params.getall("level"), params.getall("logger"): lists of strings
LevelValues == {<<>>, <<StrINFO>>, <<StrERROR, StrINFO>>}

LoggerValues == {<<>>, <<StrFooBar>>}

\* params.get("search", None)
SearchValues == << None, Str(StrERROR) >>

(***************************************************************************)
(* State                                                                   *)
(***************************************************************************)
VARIABLES
  handler,      \* configuration["enfugue.engine.logging.handler"]
  file_path,    \* configuration["enfugue.engine.logging.file"]
  exists,       \* os.path.exists of the resolved path
  fileText,     \* the physical lines of the file, without terminators
  finalNewline, \* whether the last line of the file is terminated
  pc,           \* position of the read_logs call
  lines,        \* the list fp.readlines() returned
  idx,          \* the position of parse_logs' loop in lines
  logs,         \* the list parse_logs assembles
  since, level, loggers, search,  \* the criteria read from the request
  result,       \* the list read_logs returns
  outcome       \* how the call ended: "return" or the exception raised

vars == <<handler, file_path, exists, fileText, finalNewline, pc, lines,
          idx, logs, since, level, loggers, search, result, outcome>>

config == <<handler, file_path, exists, fileText, finalNewline>>

criteria == <<since, level, loggers, search>>

(***************************************************************************)
(* fp.readlines(): every line keeps its terminator; the last line has one  *)
(* only if the file ends with a newline.                                   *)
(***************************************************************************)
readlines(text, terminated) ==
  [i \in DOMAIN text |->
     IF i < Len(text) \/ terminated THEN text[i] \o <<NL>> ELSE text[i]]

(***************************************************************************)
(* parse_logs                                                              *)
(***************************************************************************)
\* the dictionary appended for a matched line
LogDict(parsed_dict, timestamp) ==
  [timestamp |-> timestamp,
   logger    |-> parsed_dict.logger,
   level     |-> parsed_dict.level,
   file      |-> parsed_dict.file,
   line      |-> Str(parsed_dict.line),
   content   |-> parsed_dict.content]

\* whether the try block reaches logs.append for this line
Parses(line) ==
  LET parsed_line == LOG_REGEX(line)
  IN  parsed_line.matched /\ strptime(parsed_line.timestamp).ok

\* the except branch: logs[-1]["content"] += f"\n{line}"
Continue(ls, line) ==
  IF ls # <<>>
    THEN [ls EXCEPT ![Len(ls)].content = @ \o <<NL>> \o line]
    ELSE ls

\* an iteration that does not validate the timestamp and so opens an entry
\* for every line the pattern matches
ParseStepUnchecked(ls, line) ==
  LET parsed_line == LOG_REGEX(line)
  IN  IF ~parsed_line.matched THEN Continue(ls, line)
      ELSE Append(ls, LogDict(parsed_line, <<1, 1, 1, 0, 0, 0, 0>>))

\* one iteration of the loop over lines
ParseStep(ls, line) ==
  LET parsed_line == LOG_REGEX(line)
  IN  IF ~parsed_line.matched THEN Continue(ls, line)
      ELSE LET timestamp == strptime(parsed_line.timestamp)
           IN  IF ~timestamp.ok THEN Continue(ls, line)
               ELSE Append(ls, LogDict(parsed_line, timestamp.value))

\* the whole loop
RECURSIVE parse_logs(_)
parse_logs(ls) ==
  IF ls = <<>> THEN <<>>
  ELSE ParseStep(parse_logs(SubSeq(ls, 1, Len(ls) - 1)), ls[Len(ls)])

(***************************************************************************)
(* The query: include_log, sort, reverse                                   *)
(***************************************************************************)
\* log["timestamp"] < since raises TypeError when since is a date that is
\* not a datetime
ComparisonRaises(s) == s.type = "date"

Member(x, list) == \E i \in DOMAIN list : list[i] = x

\* include_log with a case-sensitive search
include_log_case_sensitive(log, s, lv, lg, se) ==
  IF s.type # "NoneType" /\ TupleLess(log.timestamp, s.val) THEN FALSE
  ELSE IF lv # <<>> /\ ~Member(log.level, lv) THEN FALSE
  ELSE IF lg # <<>> /\ ~Member(log.logger, lg) THEN FALSE
  ELSE IF se.type # "NoneType" /\ ~Contains(log.content, se.val)
    THEN FALSE
  ELSE TRUE

include_log(log, s, lv, lg, se) ==
  IF s.type # "NoneType" /\ TupleLess(log.timestamp, s.val) THEN FALSE
  ELSE IF lv # <<>> /\ ~Member(log.level, lv) THEN FALSE
  ELSE IF lg # <<>> /\ ~Member(log.logger, lg) THEN FALSE
  ELSE IF se.type # "NoneType" /\ ~Contains(Lower(log.content), Lower(se.val))
    THEN FALSE
  ELSE TRUE

\* [log for log in logs if include_log(log)]
RECURSIVE Filter(_, _, _, _, _)
Filter(ls, s, lv, lg, se) ==
  IF ls = <<>> THEN <<>>
  ELSE IF include_log(Head(ls), s, lv, lg, se)
    THEN <<Head(ls)>> \o Filter(Tail(ls), s, lv, lg, se)
    ELSE Filter(Tail(ls), s, lv, lg, se)

\* list.sort(key=timestamp) is stable: an element goes behind the elements
\* whose key is not greater
\* an insertion that puts an element before the elements of equal key
RECURSIVE InsertSortedBefore(_, _)
InsertSortedBefore(sorted, log) ==
  IF sorted = <<>> THEN <<log>>
  ELSE IF ~TupleLess(Head(sorted).timestamp, log.timestamp)
    THEN <<log>> \o sorted
    ELSE <<Head(sorted)>> \o InsertSortedBefore(Tail(sorted), log)

RECURSIVE InsertSorted(_, _)
InsertSorted(sorted, log) ==
  IF sorted = <<>> THEN <<log>>
  ELSE IF TupleLess(log.timestamp, Head(sorted).timestamp)
    THEN <<log>> \o sorted
    ELSE <<Head(sorted)>> \o InsertSorted(Tail(sorted), log)

RECURSIVE Sort(_)
Sort(ls) ==
  IF ls = <<>> THEN <<>>
  ELSE InsertSorted(Sort(SubSeq(ls, 1, Len(ls) - 1)), ls[Len(ls)])

\* list.reverse()
Reverse(ls) == [i \in DOMAIN ls |-> ls[Len(ls) + 1 - i]]

\* the query as one stable sort with a descending comparator
RECURSIVE InsertDescending(_, _)
InsertDescending(sorted, log) ==
  IF sorted = <<>> THEN <<log>>
  ELSE IF TupleLess(Head(sorted).timestamp, log.timestamp)
    THEN <<log>> \o sorted
    ELSE <<Head(sorted)>> \o InsertDescending(Tail(sorted), log)

RECURSIVE SortDescending(_)
SortDescending(ls) ==
  IF ls = <<>> THEN <<>>
  ELSE InsertDescending(SortDescending(SubSeq(ls, 1, Len(ls) - 1)), ls[Len(ls)])

QueryStableDescending(ls, s, lv, lg, se) ==
  SortDescending(Filter(ls, s, lv, lg, se))

\* the query without logs.reverse()
QueryUnreversed(ls, s, lv, lg, se) == Sort(Filter(ls, s, lv, lg, se))

\* lines 410-413 of read_logs
Query(ls, s, lv, lg, se) == Reverse(Sort(Filter(ls, s, lv, lg, se)))

(***************************************************************************)
(* Initial states: a configuration, a log file on disk, and a read_logs    *)
(* call about to start.                                                    *)
(***************************************************************************)
Init ==
  /\ handler \in HandlerValues
  /\ file_path \in PathValues
  /\ exists \in BOOLEAN
  /\ fileText \in (IF exists THEN LogFiles ELSE {<<>>})
  /\ finalNewline \in (IF fileText = <<>> THEN {TRUE} ELSE BOOLEAN)
  /\ pc = "start"
  /\ lines = <<>>
  /\ idx = 1
  /\ logs = <<>>
  /\ since = None
  /\ level = <<>>
  /\ loggers = <<>>
  /\ search = None
  /\ result = <<>>
  /\ outcome = "running"

(***************************************************************************)
(* read_logs, lines 371-383: resolve the log source and read it            *)
(***************************************************************************)
Finish(how) ==
  /\ pc' = "done"
  /\ outcome' = how

\* read_logs taking a missing file path for an absent log
ReadLogsLenient ==
  /\ pc = "start"
  /\ IF handler # "file" \/ Falsy(file_path) \/ ~exists
       THEN Finish("return") /\ UNCHANGED lines
     ELSE /\ lines' = readlines(fileText, finalNewline)
          /\ pc' = "parse"
          /\ UNCHANGED outcome
  /\ UNCHANGED <<config, idx, logs, criteria, result>>

ReadLogs ==
  /\ pc = "start"
  /\ IF handler # "file"
       THEN Finish("return") /\ UNCHANGED lines
     ELSE IF Falsy(file_path)
       THEN Finish("ConfigurationError") /\ UNCHANGED lines
     ELSE IF ~exists
       THEN Finish("return") /\ UNCHANGED lines
     ELSE /\ lines' = readlines(fileText, finalNewline)
          /\ pc' = "parse"
          /\ UNCHANGED outcome
  /\ UNCHANGED <<config, idx, logs, criteria, result>>

(***************************************************************************)
(* parse_logs, one line at a time                                          *)
(***************************************************************************)
\* the line starts an entry
ParseMatched ==
  /\ pc = "parse"
  /\ idx <= Len(lines)
  /\ Parses(lines[idx])
  /\ logs' = ParseStep(logs, lines[idx])
  /\ idx' = idx + 1
  /\ UNCHANGED <<config, pc, lines, criteria, result, outcome>>

\* the line raises ValueError and is appended to the last entry, if any
ParseUnmatched ==
  /\ pc = "parse"
  /\ idx <= Len(lines)
  /\ ~Parses(lines[idx])
  /\ logs' = ParseStep(logs, lines[idx])
  /\ idx' = idx + 1
  /\ UNCHANGED <<config, pc, lines, criteria, result, outcome>>

(***************************************************************************)
(* read_logs, lines 386-415: read the criteria, filter, sort, reverse      *)
(***************************************************************************)
\* the query accepting a datetime only
QueryLogsDatetimeOnly ==
  /\ pc = "parse"
  /\ idx > Len(lines)
  /\ \E si \in DOMAIN SinceValues, lv \in LevelValues,
        lg \in LoggerValues, sei \in DOMAIN SearchValues :
       LET s  == SinceValues[si]
           se == SearchValues[sei]
       IN /\ since' = s
          /\ level' = lv
          /\ loggers' = lg
          /\ search' = se
          /\ IF s.type \notin {"NoneType", "datetime"}
               THEN Finish("BadRequestError") /\ UNCHANGED result
             ELSE Finish("return") /\ result' = Query(logs, s, lv, lg, se)
  /\ UNCHANGED <<config, lines, idx, logs>>

QueryLogs ==
  /\ pc = "parse"
  /\ idx > Len(lines)
  /\ \E si \in DOMAIN SinceValues, lv \in LevelValues,
        lg \in LoggerValues, sei \in DOMAIN SearchValues :
       LET s  == SinceValues[si]
           se == SearchValues[sei]
       IN /\ since' = s
          /\ level' = lv
          /\ loggers' = lg
          /\ search' = se
          /\ IF s.type \notin {"NoneType", "date", "datetime"}
               THEN Finish("BadRequestError") /\ UNCHANGED result
             ELSE IF logs # <<>> /\ ComparisonRaises(s)
               THEN Finish("TypeError") /\ UNCHANGED result
             ELSE Finish("return") /\ result' = Query(logs, s, lv, lg, se)
  /\ UNCHANGED <<config, lines, idx, logs>>

Next == ReadLogs \/ ParseMatched \/ ParseUnmatched \/ QueryLogs

Spec == Init /\ [][Next]_vars

(***************************************************************************)
(* Properties                                                              *)
(***************************************************************************)
\* the call returned a list
Returned == pc = "done" /\ outcome = "return"

\* the number of occurrences of e in a list
Count(list, e) == Cardinality({i \in DOMAIN list : list[i] = e})

Entries(list) == {list[i] : i \in DOMAIN list}

\* C1: the list read_logs returns has non-increasing timestamps: no element
\* has a timestamp smaller than the timestamp of the element after it.
C1_NonIncreasing ==
  Returned =>
    \A i \in 1..(Len(result) - 1) :
      ~TupleLess(result[i].timestamp, result[i + 1].timestamp)

\* two entries that the file holds in ascending order are both returned
C1_Witness ==
  /\ Returned
  /\ Len(logs) >= 2
  /\ TupleLess(logs[1].timestamp, logs[2].timestamp)
  /\ Len(result) = Len(logs)

\* an entry satisfies every criterion that the request supplies
Satisfies(e) ==
  /\ since.type # "NoneType" => ~TupleLess(e.timestamp, since.val)
  /\ level # <<>> => e.level \in Range(level)
  /\ loggers # <<>> => e.logger \in Range(loggers)
  /\ search.type # "NoneType" =>
       Contains(Lower(e.content), Lower(search.val))

\* C2: the returned list holds exactly the assembled entries that satisfy
\* every supplied criterion, each as often as it was assembled, and nothing
\* else; with no criterion supplied it holds every assembled entry.
C2_ExactlyTheMatching ==
  Returned =>
    /\ \A e \in Entries(logs) \cup Entries(result) :
         Count(result, e) = (IF Satisfies(e) THEN Count(logs, e) ELSE 0)
    /\ (/\ since.type = "NoneType" /\ level = <<>>
        /\ loggers = <<>> /\ search.type = "NoneType")
         => Len(result) = Len(logs)

\* all four criteria are supplied, one entry passes them and another does
\* not
C2_Witness ==
  /\ Returned
  /\ since.type = "datetime"
  /\ level # <<>>
  /\ loggers # <<>>
  /\ search.type = "str"
  /\ result # <<>>
  /\ Len(result) < Len(logs)

\* the log file was found and read
FileRead == pc # "start" /\ handler = "file" /\ ~Falsy(file_path) /\ exists

\* parse_logs has gone through every line of the file
Assembled == FileRead /\ idx > Len(lines)

\* the positions of the primary lines of the file
PrimaryLines == {i \in DOMAIN fileText : Parses(fileText[i])}

\* the text of the lines p + 1 .. q of the file, each after one newline
RECURSIVE Continuations(_, _)
Continuations(p, q) ==
  IF q <= p THEN <<>>
  ELSE Continuations(p, q - 1) \o <<NL>> \o fileText[q]

\* the last line before the primary line that follows line p
LastLineOf(p) ==
  LET later == {i \in PrimaryLines : i > p}
  IN  IF later = {} THEN Len(fileText)
      ELSE (CHOOSE i \in later : \A j \in later : i <= j) - 1

\* the position of the k-th primary line
KthPrimary(k) ==
  CHOOSE i \in PrimaryLines : Cardinality({j \in PrimaryLines : j <= i}) = k

\* C3: after assembly each entry's content is the content field of its
\* primary line followed, for every continuation line up to the next
\* primary line, by one newline and the text of that line without its
\* terminator; the example line followed by the Traceback line gives one
\* entry with the content "hello\nTraceback (most recent call last):".
C3_ContentStripped ==
  Assembled =>
    /\ Len(logs) = Cardinality(PrimaryLines)
    /\ \A k \in DOMAIN logs :
         LET p == KthPrimary(k)
         IN  logs[k].content =
               LOG_REGEX(fileText[p]).content \o Continuations(p, LastLineOf(p))
    /\ fileText = <<LineA, LineB>> =>
         Len(logs) = 1 /\ logs[1].content = StrHelloTraceback

\* the call got as far as the query
Queried == FileRead /\ pc = "done"

\* midnight at the start of a date
Midnight(d) == d \o <<0, 0, 0, 0>>

\* C4: with since given as a bare date the call completes normally and the
\* date counts as midnight of that day: an entry is returned iff its
\* timestamp is not before that midnight (and it passes the other
\* criteria), so 2023-10-01T23:59:59.999999 is excluded and
\* 2023-10-02T00:00:00.000000 included for since = 2023-10-02.
C4_DateIsMidnight ==
  (Queried /\ since.type = "date") =>
    /\ outcome = "return"
    /\ \A e \in Entries(logs) :
         e \in Entries(result) <=>
           /\ ~TupleLess(e.timestamp, Midnight(since.val))
           /\ level # <<>> => e.level \in Range(level)
           /\ loggers # <<>> => e.logger \in Range(loggers)
           /\ search.type # "NoneType" =>
                Contains(Lower(e.content), Lower(search.val))

\* C5: the example line yields one entry with timestamp
\* 2023-10-01T12:00:00.123456, logger "foo.bar", level "INFO", file
\* "mod.py", content "hello" and line equal to the integer 10.
C5_FieldTypes ==
  (Assembled /\ fileText = <<LineA>>) =>
    /\ Len(logs) = 1
    /\ logs[1].timestamp = <<2023, 10, 1, 12, 0, 0, 123456>>
    /\ logs[1].logger = StrFooBar
    /\ logs[1].level = StrINFO
    /\ logs[1].file = StrModPy
    /\ logs[1].content = StrHello
    /\ logs[1].line.type = "int"
    /\ logs[1].line.val = 10

\* C6: when file logging is not the configured handler, or the configured
\* log file does not exist, read_logs returns an empty list and raises
\* nothing; when file logging is the handler and no file path is
\* configured it raises ConfigurationError.
C6_LogSource ==
  pc = "done" =>
    /\ (handler # "file" \/ (~Falsy(file_path) /\ ~exists))
         => (outcome = "return" /\ result = <<>>)
    /\ (handler = "file" /\ Falsy(file_path))
         => outcome = "ConfigurationError"

\* file logging is the handler, no path is configured, and the call ended
C6_Witness ==
  /\ pc = "done"
  /\ handler = "file"
  /\ file_path = Unset
  /\ ~exists
  /\ outcome = "ConfigurationError"

Requeried == Query(result, since, level, loggers, search)

TieFirst(list, i) ==
  CHOOSE j \in 1..i :
    /\ \A k \in j..i : list[k].timestamp = list[i].timestamp
    /\ (j = 1 \/ list[j - 1].timestamp # list[i].timestamp)

TieLast(list, i) ==
  CHOOSE j \in i..Len(list) :
    /\ \A k \in i..j : list[k].timestamp = list[i].timestamp
    /\ (j = Len(list) \/ list[j + 1].timestamp # list[i].timestamp)

RECURSIVE WithTimestamp(_, _)
WithTimestamp(list, t) ==
  IF list = <<>> THEN <<>>
  ELSE IF Head(list).timestamp = t
    THEN <<Head(list)>> \o WithTimestamp(Tail(list), t)
    ELSE WithTimestamp(Tail(list), t)

\* C9: among returned entries of equal timestamp the order is the reverse
\* of their order in the source: of two surviving entries with the same
\* timestamp, the one whose primary line comes later is returned first.
C9_TiesReversed ==
  Returned =>
    \A t \in {logs[i].timestamp : i \in DOMAIN logs} :
      LET source == WithTimestamp(Filter(logs, since, level, loggers, search), t)
          given  == WithTimestamp(result, t)
      IN  /\ Len(given) = Len(source)
          /\ \A i \in DOMAIN given : given[i] = source[Len(source) + 1 - i]

\* three entries are returned, two of them different and of equal
\* timestamp
C9_Witness ==
  /\ Returned
  /\ Len(result) = 3
  /\ \E i, j \in DOMAIN logs :
       /\ i < j
       /\ logs[i].timestamp = logs[j].timestamp
       /\ logs[i] # logs[j]

\* a line that fails the pattern, or matches it with a month above 12
Malformed(line) ==
  \/ ~LOG_REGEX(line).matched
  \/ ToInt(SubSeq(line, 6, 7)) > 12

ValidDateTime(t) ==
  LET y  == ToInt(SubSeq(t, 1, 4))
      mo == ToInt(SubSeq(t, 6, 7))
      d  == ToInt(SubSeq(t, 9, 10))
  IN  /\ y >= 1
      /\ mo \in 1..12
      /\ d \in 1..DaysInMonth(y, mo)
      /\ ToInt(SubSeq(t, 12, 13)) <= 23
      /\ ToInt(SubSeq(t, 15, 16)) <= 59
      /\ ToInt(SubSeq(t, 18, 19)) <= 59

\* a line that conforms to the record grammar and carries a valid date-time
GrammarPrimary(line) ==
  LOG_REGEX(line).matched /\ ValidDateTime(LOG_REGEX(line).timestamp)

\* the positions of the grammar's primary lines among the lines read so far
SeenPrimary == {i \in 1..(idx - 1) : i <= Len(lines) /\ GrammarPrimary(lines[i])}

\* the position of the k-th of them
KthSeenPrimary(k) ==
  CHOOSE i \in SeenPrimary : Cardinality({j \in SeenPrimary : j <= i}) = k

\* C11: at every step of assembly and at its end the list holds exactly one
\* entry for every primary line seen so far, in the order of those lines,
\* a primary line being a line that conforms to the record grammar with a
\* valid date-time and any number of fractional digits; no later line
\* removes, reorders or merges entries.
C11_OneEntryPerPrimaryLine ==
  FileRead =>
    /\ Len(logs) = Cardinality(SeenPrimary)
    /\ \A k \in DOMAIN logs :
         LET groups == LOG_REGEX(lines[KthSeenPrimary(k)])
         IN  /\ logs[k].logger = groups.logger
             /\ logs[k].level = groups.level
             /\ logs[k].file = groups.file
             /\ logs[k].line.val = groups.line

====
